---------------------------- MODULE Spec2Model ----------------------------
(***************************************************************************)
(* A model of the text-analytics pipeline of NewsComparator:               *)
(*   src/archived_methods.py  lemmatize_text, preprocess, extract_ngrams,  *)
(*                            rake_keywords, analyse_from_file             *)
(*   src/main.py              keyword_extraction_test                      *)
(*                                                                         *)
(* A Python str is a sequence of one-character strings, so that the        *)
(* regular expressions of the source act on characters here as they do     *)
(* there.  A Python dict is a function from its keys.                      *)
(***************************************************************************)
EXTENDS Integers, Sequences, FiniteSets, TLC

VARIABLES
    prog,       \* the function that is running
    pc,         \* its position
    articles,   \* the list loaded from the input file, annotated in place
    idx,        \* index (1-based) of the article the running loop is at
    width,      \* keyword_extraction_test: n of "for n in range(1, 4)"
    vectorizer, \* analyse_from_file: the fitted TF-IDF vectorizers, or None
    fits,       \* number of fit_transform calls made, per vectorizer
    writes,     \* per article: number of assignments made to each derived key
    distances,  \* keyword_extraction_test: the last cosine_similarity row
    encodes,    \* keyword_extraction_test: the model.encode calls made so far
    outfile,    \* the list of records dumped to the output file, or None
    arg,        \* argument of the pure function under call
    ret         \* its return value, or None

vars == <<prog, pc, articles, idx, width, vectorizer, fits, writes,
          distances, encodes, outfile, arg, ret>>

None == [kind |-> "none"]

(***************************************************************************)
(* Bounds of the model.                                                    *)
(***************************************************************************)
MaxNgramText == 5
MaxRakeText == 5
MaxArticles == 2
MaxSim == 1

(***************************************************************************)
(* Characters and strings.                                                 *)
(***************************************************************************)
LowerChars == <<"a","b","c","d","e","f","g","h","i","j","k","l","m",
                "n","o","p","q","r","s","t","u","v","w","x","y","z">>
UpperChars == <<"A","B","C","D","E","F","G","H","I","J","K","L","M",
                "N","O","P","Q","R","S","T","U","V","W","X","Y","Z">>
Digits == {"0","1","2","3","4","5","6","7","8","9"}

Range(s) == {s[i] : i \in DOMAIN s}

IsUpper(c) == c \in Range(UpperChars)
IsLower(c) == c \in Range(LowerChars)
\* \w and \s of Python's re, on the characters the model uses
IsWordChar(c) == IsUpper(c) \/ IsLower(c) \/ c \in Digits \/ c = "_"
IsSpace(c) == c \in {" ", "\n", "\t"}

\* str.lower()
LowerChar(c) ==
    IF IsUpper(c)
    THEN LowerChars[CHOOSE i \in DOMAIN UpperChars : UpperChars[i] = c]
    ELSE c
Lower(s) == [i \in DOMAIN s |-> LowerChar(s[i])]

\* sep.join(segs)
RECURSIVE Join(_, _)
Join(segs, sep) ==
    IF segs = <<>> THEN <<>>
    ELSE IF Len(segs) = 1 THEN segs[1]
    ELSE segs[1] \o sep \o Join(Tail(segs), sep)

\* the pieces of s between the positions of P, in order (re.split on
\* one-character separators at the positions P): Len = Cardinality(P) + 1
RECURSIVE Pieces(_, _, _)
Pieces(s, P, from) ==
    LET rest == {p \in P : p >= from}
    IN  IF rest = {} THEN << SubSeq(s, from, Len(s)) >>
        ELSE LET p == CHOOSE q \in rest : \A r \in rest : q <= r
             IN  << SubSeq(s, from, p - 1) >> \o Pieces(s, P, p + 1)

NonEmpty(seqs) == SelectSeq(seqs, LAMBDA x : x # <<>>)

\* all orderings of a finite set, as sequences
RECURSIVE Perms(_)
Perms(S) ==
    IF S = {} THEN { <<>> }
    ELSE UNION { { <<x>> \o p : p \in Perms(S \ {x}) } : x \in S }

\* all strings over Alphabet of length at most k
RECURSIVE Strings(_, _)
Strings(Alphabet, k) ==
    IF k = 0 THEN { <<>> }
    ELSE LET shorter == Strings(Alphabet, k - 1)
         IN  shorter \cup { Append(s, c) : s \in shorter, c \in Alphabet }

(***************************************************************************)
(* The words of the model's texts.                                         *)
(***************************************************************************)
W_the == <<"t","h","e">>
W_on == <<"o","n">>
W_cat == <<"c","a","t">>
W_sat == <<"s","a","t">>
W_mat == <<"m","a","t">>
W_can == <<"c","a","n">>
W_cans == <<"c","a","n","s">>
W_cats == <<"c","a","t","s">>

(***************************************************************************)
(* extract_ngrams (src/archived_methods.py 55-61).                         *)
(***************************************************************************)
\* nltk's word_tokenize, an external tokenizer: whitespace separates tokens,
\* a run of word characters is one token and every other character is a
\* token of its own.
RECURSIVE Tokenize(_, _, _)
Tokenize(s, i, cur) ==
    LET flush == IF cur = <<>> THEN <<>> ELSE <<cur>>
    IN  IF i > Len(s) THEN flush
        ELSE IF IsWordChar(s[i]) THEN Tokenize(s, i + 1, Append(cur, s[i]))
        ELSE IF IsSpace(s[i]) THEN flush \o Tokenize(s, i + 1, <<>>)
        ELSE flush \o << <<s[i]>> >> \o Tokenize(s, i + 1, <<>>)

word_tokenize(text) == Tokenize(text, 1, <<>>)

\* re.search(r'\w', word)
HasWordChar(word) == \E i \in DOMAIN word : IsWordChar(word[i])

\* words = [word for word in words if re.search(r'\w', word)]
NgramWords(text) == SelectSeq(word_tokenize(text), HasWordChar)

\* range(len(words) - n + 1), as the 1-based start positions
NgramStartsOffByOne(words, n) == 1 .. (Len(words) - n)
NgramStarts(words, n) == 1 .. (Len(words) - n + 1)

extract_ngrams(text, n) ==
    LET words == NgramWords(text)
        starts == NgramStarts(words, n)
    IN  [i \in starts |-> Join(SubSeq(words, i, i + n - 1), <<" ">>)]


(***************************************************************************)
(* rake_keywords (src/archived_methods.py 64-98).                          *)
(***************************************************************************)
\* the character class of "punctuations" (line 66): the 32 ASCII punctuation
\* characters; the grave accent, which no text of the model holds, cannot be
\* written in a string here and is left out
RakePunctuation ==
    {"!", "\"", "#", "$", "%", "&", "'", "(", ")", "*", "+", ",", "-", ".",
     "/", ":", ";", "<", "=", ">", "?", "@", "[", "\\", "]", "^", "_", "{",
     "|", "}", "~"}

\* the positions p at which
\*   (?<!\w\.\w.)(?<![A-Z][a-z]\.)(?<=\.|\?)\s
\* matches: a whitespace character that follows "." or "?", unless the four
\* characters before it are word "." word any, or the three before it are
\* upper lower "."
SentenceBreaks(text) ==
    {p \in DOMAIN text :
        /\ IsSpace(text[p])
        /\ p > 1 /\ text[p-1] \in {".", "?"}
        /\ ~(/\ p > 4
             /\ IsWordChar(text[p-4]) /\ text[p-3] = "."
             /\ IsWordChar(text[p-2]) /\ text[p-1] # "\n")
        /\ ~(/\ p > 3
             /\ IsUpper(text[p-3]) /\ IsLower(text[p-2]) /\ text[p-1] = ".")}

\* sentences = re.split(..., text)
RakeSentences(text) == Pieces(text, SentenceBreaks(text), 1)

\* words = [word.lower() for word in re.split(punctuations, sentence) if word]
RakeWords(sentence) ==
    LET cuts == {p \in DOMAIN sentence : sentence[p] \in RakePunctuation}
        parts == NonEmpty(Pieces(sentence, cuts, 1))
    IN  [i \in DOMAIN parts |-> Lower(parts[i])]

\* the inner loop over the words of one sentence (lines 73-82): the phrases
\* the sentence adds
RECURSIVE SentencePhrases(_, _, _)
SentencePhrases(words, stopwords, phrase) ==
    IF words = <<>>
    THEN IF phrase # <<>> THEN <<phrase>> ELSE <<>>
    ELSE IF words[1] \in stopwords
    THEN (IF phrase # <<>> THEN <<phrase>> ELSE <<>>)
         \o SentencePhrases(Tail(words), stopwords, <<>>)
    ELSE SentencePhrases(Tail(words), stopwords, Append(phrase, words[1]))

\* the outer loop over the sentences (lines 70-82)
RECURSIVE PhrasesOf(_, _)
PhrasesOf(sentences, stopwords) ==
    IF sentences = <<>> THEN <<>>
    ELSE SentencePhrases(RakeWords(sentences[1]), stopwords, <<>>)
         \o PhrasesOf(Tail(sentences), stopwords)

RakePhrases(text, stopwords) == PhrasesOf(RakeSentences(text), stopwords)

\* a Counter after "c[word] += by" : a missing key counts 0
CounterAdd(c, word, by) ==
    [w \in DOMAIN c \cup {word} |->
        IF w = word THEN (IF w \in DOMAIN c THEN c[w] ELSE 0) + by
        ELSE c[w]]

EmptyCounter == [w \in {} |-> 0]

\* "for word in unique_words: counter[word] += by" over one phrase
RECURSIVE AddAll(_, _, _)
AddAll(c, words, by) ==
    IF words = {} THEN c
    ELSE LET w == CHOOSE x \in words : TRUE
         IN  AddAll(CounterAdd(c, w, by), words \ {w}, by)

\* word_freq after the loop of lines 87-91
RECURSIVE WordFreq(_)
WordFreq(phrases) ==
    IF phrases = <<>> THEN EmptyCounter
    ELSE AddAll(WordFreq(SubSeq(phrases, 1, Len(phrases) - 1)),
                Range(phrases[Len(phrases)]), 1)

\* word_degree after the loop of lines 87-91: += len(phrase)
RECURSIVE WordDegreeByUnique(_)
WordDegreeByUnique(phrases) ==
    IF phrases = <<>> THEN EmptyCounter
    ELSE AddAll(WordDegreeByUnique(SubSeq(phrases, 1, Len(phrases) - 1)),
                Range(phrases[Len(phrases)]),
                Cardinality(Range(phrases[Len(phrases)])))
RECURSIVE WordDegree(_)
WordDegree(phrases) ==
    IF phrases = <<>> THEN EmptyCounter
    ELSE AddAll(WordDegree(SubSeq(phrases, 1, Len(phrases) - 1)),
                Range(phrases[Len(phrases)]), Len(phrases[Len(phrases)]))

\* scores = {word: word_degree[word] / word_freq[word] for word in word_freq}
\* The quotient of two small integers is kept as the fraction num/den; two
\* such quotients compare as floats exactly as the fractions compare.
RakeScores(phrases) ==
    LET freq == WordFreq(phrases)
        degree == WordDegree(phrases)
    IN  [w \in DOMAIN freq |-> [num |-> degree[w], den |-> freq[w]]]

ScoreLess(a, b) == a.num * b.den < b.num * a.den

\* The insertion orders the dict "scores" can have: the words in the order of
\* the first phrase that holds them, the new words of one phrase in the
\* iteration order of set(phrase), which Python leaves unspecified.
RECURSIVE InsertionOrders(_, _)
InsertionOrders(phrases, seen) ==
    IF phrases = <<>> THEN { <<>> }
    ELSE LET new == Range(phrases[1]) \ seen
         IN  { h \o t : h \in Perms(new),
                        t \in InsertionOrders(Tail(phrases), seen \cup new) }

\* sorted(scores.items(), key=lambda x: x[1], reverse=True): a stable sort, so
\* items of equal score keep their insertion order
RECURSIVE InsertByScore(_, _)
InsertByScore(sorted, item) ==
    IF sorted = <<>> THEN <<item>>
    ELSE IF ScoreLess(sorted[Len(sorted)][2], item[2])
    THEN Append(InsertByScore(SubSeq(sorted, 1, Len(sorted) - 1), item),
                sorted[Len(sorted)])
    ELSE Append(sorted, item)

RECURSIVE SortedByScore(_, _)
SortedByScore(order, scores) ==
    IF order = <<>> THEN <<>>
    ELSE InsertByScore(
            SortedByScore(SubSeq(order, 1, Len(order) - 1), scores),
            << order[Len(order)], scores[order[Len(order)]] >>)

\* the lists rake_keywords(text, stopwords) can return
rake_keywords(text, stopwords) ==
    LET phrases == RakePhrases(text, stopwords)
        scores == RakeScores(phrases)
    IN  { SortedByScore(order, scores) : order \in InsertionOrders(phrases, {}) }


(***************************************************************************)
(* Article records.  A value read from the input JSON is tagged with its   *)
(* Python type: a str, a list of str, or None.                             *)
(***************************************************************************)
Str(s) == [kind |-> "str", val |-> s]
Lst(l) == [kind |-> "list", val |-> l]

\* truth value of a JSON value in a Python condition
Truthy(v) == v.kind \in {"str", "list"} /\ v.val # <<>>

\* d[key] = value on a dict
Put(d, key, value) ==
    [k \in DOMAIN d \cup {key} |-> IF k = key THEN value ELSE d[k]]

\* the dict with the given items
RECURSIVE Dict(_)
Dict(items) ==
    IF items = <<>> THEN [k \in {} |-> None]
    ELSE Put(Dict(SubSeq(items, 1, Len(items) - 1)),
             items[Len(items)][1], items[Len(items)][2])

(***************************************************************************)
(* full_text (src/archived_methods.py 112-114, src/main.py 583-585).       *)
(***************************************************************************)
\* re.sub(r'[^\w\s]', '', text)
StripPunctuation(text) ==
    SelectSeq(text, LAMBDA c : IsWordChar(c) \/ IsSpace(c))

\* sub = subtitle if it is a list, else [subtitle] if it is truthy, else []
SubtitleSegments(article) ==
    LET subtitle == article["subtitle"]
    IN  IF subtitle.kind = "list" THEN subtitle.val
        ELSE IF Truthy(subtitle) THEN << subtitle.val >>
        ELSE <<>>

\* [article['title']] if article['title'] else []
TitleSegments(article) ==
    IF Truthy(article["title"]) THEN << article["title"].val >> ELSE <<>>

\* [text for text in article['article_text'] if re.sub(r'[^\w\s]', '', text)]
\* (the items of a str are its characters)
KeepsBodySegment(text) == StripPunctuation(text) # <<>>
BodySegments(article) ==
    LET body == article["article_text"]
        items == IF body.kind = "str"
                 THEN [i \in DOMAIN body.val |-> << body.val[i] >>]
                 ELSE body.val
    IN  SelectSeq(items, KeepsBodySegment)

FullText(article) ==
    Join(TitleSegments(article) \o SubtitleSegments(article)
            \o BodySegments(article), <<" ">>)

\* the statement raises: a key is missing (KeyError) or article_text is None
\* (TypeError, None is not iterable)
FullTextRaises(article) ==
    \/ {"title", "subtitle", "article_text"} \ DOMAIN article # {}
    \/ article["article_text"].kind = "none"

(***************************************************************************)
(* Stop words and lemmas: the parts of the external resources (the NLTK    *)
(* English stop-word list, the WordNet lemmatizer, scikit-learn's English  *)
(* stop-word list) that the words of the model meet.                       *)
(***************************************************************************)

\* stop_words = set(stopwords.words('english'))
stop_words == {W_the, W_on, W_can, <<"a">>}

\* "english" of CountVectorizer(stop_words="english")
sklearn_stop_words == {W_the, W_on, W_can, <<"a">>}

\* lemmatizer.lemmatize(word, get_wordnet_pos(pos)): the plural nouns "cans" and
\* "cats" have the lemmas "can" and "cat"; the other words of the model are
\* their own lemmas
Lemmatize(word) ==
    IF word = W_cans THEN W_can
    ELSE IF word = W_cats THEN W_cat
    ELSE word

(***************************************************************************)
(* lemmatize_text and preprocess (src/archived_methods.py 32-52).          *)
(***************************************************************************)
\* re.sub(r'[^\s]*@[^\s]', '', text): in a run of non-space characters, what
\* precedes and includes the last "@" that a non-space character follows, and
\* that character, are removed
InHandle(text, i) ==
    \E q \in DOMAIN text :
        /\ text[q] = "@" /\ q + 1 <= Len(text) /\ i <= q + 1
        /\ \A j \in i .. q + 1 : ~IsSpace(text[j])
DropHandles(text) ==
    LET kept == {i \in DOMAIN text : ~InHandle(text, i)}
        RECURSIVE Keep(_)
        Keep(i) == IF i > Len(text) THEN <<>>
                   ELSE (IF i \in kept THEN <<text[i]>> ELSE <<>>) \o Keep(i + 1)
    IN  Keep(1)

\* lemmatize_text(text, stop_words): the list of lemmatized sentences.  The
\* text has lost its punctuation before sent_tokenize sees it, so it is one
\* sentence, or none when it has no token.
lemmatize_text(text, stopwords) ==
    LET cleaned == StripPunctuation(DropHandles(Lower(text)))
        tokenized_words == word_tokenize(cleaned)
        kept == SelectSeq(tokenized_words, LAMBDA w : w \notin stopwords)
        lemmatized_words == [i \in DOMAIN kept |-> Lemmatize(kept[i])]
    IN  IF tokenized_words = <<>> THEN <<>>
        ELSE << Join(lemmatized_words, <<" ">>) >>

\* the maximal runs of word characters of s that have at least min characters
RECURSIVE WordRuns(_, _, _, _)
WordRuns(s, i, cur, min) ==
    LET flush == IF Len(cur) >= min THEN <<cur>> ELSE <<>>
    IN  IF i > Len(s) THEN flush
        ELSE IF IsWordChar(s[i]) THEN WordRuns(s, i + 1, Append(cur, s[i]), min)
        ELSE flush \o WordRuns(s, i + 1, <<>>, min)

\* preprocess(text, stop_words): re.findall(r'\b\w+\b', text.lower()) without
\* the stop words
preprocess(text, stopwords) ==
    SelectSeq(WordRuns(Lower(text), 1, <<>>, 1), LAMBDA t : t \notin stopwords)

(***************************************************************************)
(* TfidfVectorizer (scikit-learn), as analyse_from_file uses it            *)
(* (src/archived_methods.py 119-145).                                      *)
(***************************************************************************)
Min(a, b) == IF a <= b THEN a ELSE b
Max(a, b) == IF a >= b THEN a ELSE b

\* the analyzer of a default TfidfVectorizer or CountVectorizer: lowercase,
\* then the tokens of token_pattern (?u)\b\w\w+\b
VectorizerTokens(text) == WordRuns(Lower(text), 1, <<>>, 2)

CountOf(term, tokens) == Cardinality({j \in DOMAIN tokens : tokens[j] = term})

\* 1000 * ln(k) for k = 1 .. 5, rounded
LnMilli == <<0, 693, 1099, 1386, 1609>>

\* vectorizer.fit_transform(corpus): the vocabulary and, per document, the
\* weight of every term.  A weight is tf * idf with the smoothed
\* idf = ln((1 + n) / (1 + df)) + 1, in thousandths; the L2 normalisation of a
\* row, which scales the row by a positive factor or leaves a zero row as it
\* is, changes neither the order of its weights nor which of them are zero.
TfidfFit(corpus) ==
    LET tokens == [i \in DOMAIN corpus |-> VectorizerTokens(corpus[i])]
        vocabulary == UNION {Range(tokens[i]) : i \in DOMAIN corpus}
        n == Len(corpus)
        df(t) == Cardinality({i \in DOMAIN corpus : CountOf(t, tokens[i]) > 0})
        idf(t) == 1000 + LnMilli[1 + n] - LnMilli[1 + df(t)]
    IN  [vocabulary |-> vocabulary,
         matrix |-> [i \in DOMAIN corpus |->
                       [t \in vocabulary |-> CountOf(t, tokens[i]) * idf(t)]]]

\* fit_transform raises ValueError("empty vocabulary ...")
TfidfFitRaises(corpus) ==
    \A i \in DOMAIN corpus : VectorizerTokens(corpus[i]) = <<>>

\* feature_array[np.argsort(row).flatten()[::-1]]: the terms by descending
\* weight.  argsort's default sort is not stable, so terms of equal weight
\* come in any order.
Rankings(row) ==
    {order \in Perms(DOMAIN row) :
        \A j \in DOMAIN order : \A k \in DOMAIN order :
            j < k => row[order[j]] >= row[order[k]]}

N == 5

\* the scan of lines 132-139: the first N terms that are no stop words
RECURSIVE ScanKeywords(_, _, _)
ScanKeywords(ranked, j, top) ==
    IF ranked = <<>> THEN top
    ELSE LET keep == ranked[1] \notin stop_words
             top2 == IF keep THEN Append(top, ranked[1]) ELSE top
             j2 == IF keep THEN j + 1 ELSE j
         IN  IF j2 >= N THEN top2 ELSE ScanKeywords(Tail(ranked), j2, top2)

TopKeywordsRaw(ranked) == ScanKeywords(ranked, 0, <<>>)

\* line 142: [keyword for keyword in feature_array_lem[tfidf_sorting_lem][:N]]
TopKeywordsLem(ranked) == SubSeq(ranked, 1, Min(N, Len(ranked)))

(***************************************************************************)
(* The topic model and the n-gram counts of analyse_from_file              *)
(* (src/archived_methods.py 147-197).                                      *)
(***************************************************************************)
\* texts = [preprocess(sent, stop_words) for sent in text.split('.')]
LdaTexts(text) ==
    LET sents == Pieces(text, {p \in DOMAIN text : text[p] = "."}, 1)
    IN  [i \in DOMAIN sents |-> preprocess(sents[i], stop_words)]

\* corpora.Dictionary(texts): the tokens that have an id
LdaDictionary(texts) == UNION {Range(texts[i]) : i \in DOMAIN texts}

\* LdaModel(corpus, num_topics=3, id2word=dictionary, random_state=42) raises
\* ValueError("cannot compute LDA over an empty collection (no terms)")
LdaRaises(text) == LdaDictionary(LdaTexts(text)) = {}

\* lda_model.print_topics(num_words=5): the weights come from the external
\* model; what is kept of them is the model's topic count and vocabulary
LdaTopics(text) ==
    [num_topics |-> 3, num_words |-> 5,
     id2word |-> LdaDictionary(LdaTexts(text))]

\* the keys of a defaultdict(int) filled by "freq[x] += 1" over xs, in
\* insertion order
RECURSIVE FirstOccurrences(_)
FirstOccurrences(xs) ==
    IF xs = <<>> THEN <<>>
    ELSE LET before == FirstOccurrences(SubSeq(xs, 1, Len(xs) - 1))
         IN  IF xs[Len(xs)] \in Range(before) THEN before
             ELSE Append(before, xs[Len(xs)])

\* sorted(items, key=lambda x: x[1], reverse=True): stable, by count
RECURSIVE InsertByCount(_, _)
InsertByCount(sorted, item) ==
    IF sorted = <<>> THEN <<item>>
    ELSE IF sorted[Len(sorted)][2] < item[2]
    THEN Append(InsertByCount(SubSeq(sorted, 1, Len(sorted) - 1), item),
                sorted[Len(sorted)])
    ELSE Append(sorted, item)

RECURSIVE SortedByCount(_)
SortedByCount(items) ==
    IF items = <<>> THEN <<>>
    ELSE InsertByCount(SortedByCount(SubSeq(items, 1, Len(items) - 1)),
                       items[Len(items)])

\* sorted(freq.items(), key=lambda x: x[1], reverse=True)[:5]
TopNgrams(ngrams) ==
    LET keys == FirstOccurrences(ngrams)
        items == [i \in DOMAIN keys |-> << keys[i], CountOf(keys[i], ngrams) >>]
        sorted == SortedByCount(items)
    IN  SubSeq(sorted, 1, Min(5, Len(sorted)))

\* entities = [(ent.text, ent.label_) for ent in nlp(text).ents]: the result
\* of the external tagger, kept as the text it was given
Entities(text) == [tagger |-> "en_core_web_sm", text |-> text]

(***************************************************************************)
(* The input records.                                                      *)
(***************************************************************************)
Url(k) == Str(<<"u", k>>)

Article(url, title, subtitle, body) ==
    Dict(<< <<"url", url>>, <<"title", title>>, <<"subtitle", subtitle>>,
            <<"article_text", body>> >>)

\* "the cat" / - / ["..."]
ArticleCat ==
    Article(Url("1"), Str(W_the \o <<" ">> \o W_cat), None,
            Lst(<< <<".", ".", ".">> >>))
\* "" / "cans" / ["cat."]
ArticleCans ==
    Article(Url("2"), Str(<<>>), Str(W_cans), Lst(<< W_cat \o <<".">> >>))
\* no text at all
ArticleEmpty == Article(Url("3"), Str(<<>>), None, Lst(<<>>))
\* "cat" / "sat" / ["the mat."]
ArticleMat ==
    Article(Url("7"), Str(W_cat), Str(W_sat),
            Lst(<< W_the \o <<" ">> \o W_mat \o <<".">> >>))
\* "cat" / - / ["cat cat!"]
ArticleCats ==
    Article(Url("8"), Str(W_cat), None,
            Lst(<< W_cat \o <<" ">> \o W_cat \o <<"!">> >>))
\* the record of the specification's example: "A B" / ["C"] / ["D.", "  "]
ArticleSpecExample ==
    Article(Url("5"), Str(<<"A", " ", "B">>), Lst(<< <<"C">> >>),
            Lst(<< <<"D", ".">>, <<" ", " ">> >>))
\* a record whose scrape found no body
ArticleNoBody == Article(Url("6"), Str(W_cat), Str(<<>>), None)

AnalysePool ==
    <<ArticleCat, ArticleCans, ArticleEmpty, ArticleCats, ArticleSpecExample,
      ArticleNoBody>>

\* the lists of at most MaxArticles records of a pool
ArticleLists(pool) ==
    UNION { [1 .. len -> Range(pool)] : len \in 0 .. MaxArticles }

(***************************************************************************)
(* analyse_from_file (src/archived_methods.py 100-210).                    *)
(***************************************************************************)
\* article[key] = value, counted
Assign(aw, key, value) ==
    [dict |-> Put(aw.dict, key, value),
     writes |-> CounterAdd(aw.writes, key, 1)]

InitAnalyse ==
    /\ prog = "analyse_from_file" /\ pc = "prepare"
    /\ articles \in ArticleLists(AnalysePool)
    /\ idx = 1 /\ width = 0
    /\ vectorizer = None
    /\ fits = [raw |-> 0, lem |-> 0]
    /\ writes = [i \in DOMAIN articles |-> EmptyCounter]
    /\ distances = None /\ encodes = <<>> /\ outfile = None
    /\ arg = None /\ ret = None

\* one iteration of the first loop (lines 109-116)
AnalysePrepare ==
    /\ prog = "analyse_from_file" /\ pc = "prepare"
    /\ idx <= Len(articles)
    /\ IF FullTextRaises(articles[idx])
       THEN /\ pc' = "raised"
            /\ UNCHANGED <<articles, writes, idx>>
       ELSE LET a0 == [dict |-> articles[idx], writes |-> writes[idx]]
                a1 == Assign(a0, "full_text", FullText(a0.dict))
                lemmatized_sentences ==
                    lemmatize_text(a1.dict["full_text"], stop_words)
                a2 == Assign(a1, "lemmatized_text",
                             Join(lemmatized_sentences, <<" ">>))
            IN  /\ articles' = [articles EXCEPT ![idx] = a2.dict]
                /\ writes' = [writes EXCEPT ![idx] = a2.writes]
                /\ idx' = idx + 1
                /\ pc' = "prepare"
    /\ UNCHANGED <<prog, width, vectorizer, fits, distances, encodes, outfile,
                   arg, ret>>

\* the texts of the articles from the last article to the first
CorpusReversed(list, key) ==
    [i \in DOMAIN list |-> list[Len(list) + 1 - i][key]]

\* [article[key] for article in articles]
Corpus(list, key) == [i \in DOMAIN list |-> list[i][key]]

\* lines 119-125, once the first loop has ended
AnalyseFit ==
    /\ prog = "analyse_from_file" /\ pc = "prepare"
    /\ idx > Len(articles)
    /\ LET corpus_raw_text == Corpus(articles, "full_text")
           corpus_lem_text == Corpus(articles, "lemmatized_text")
       IN  IF TfidfFitRaises(corpus_raw_text)
           THEN /\ fits' = [fits EXCEPT !.raw = @ + 1]
                /\ pc' = "raised"
                /\ UNCHANGED <<vectorizer, idx>>
           ELSE IF TfidfFitRaises(corpus_lem_text)
           THEN /\ fits' = [raw |-> fits.raw + 1, lem |-> fits.lem + 1]
                /\ pc' = "raised"
                /\ UNCHANGED <<vectorizer, idx>>
           ELSE /\ fits' = [raw |-> fits.raw + 1, lem |-> fits.lem + 1]
                /\ vectorizer' = [raw |-> TfidfFit(corpus_raw_text),
                                  lem |-> TfidfFit(corpus_lem_text),
                                  corpus_raw_text |-> corpus_raw_text,
                                  corpus_lem_text |-> corpus_lem_text]
                /\ idx' = 1
                /\ pc' = "rank"
    /\ UNCHANGED <<prog, articles, width, writes, distances, encodes, outfile,
                   arg, ret>>

\* lines 163-177 and 181-195 for one text: the top bigrams and trigrams
NgramFields(aw, prefix, text) ==
    LET top_bigrams == TopNgrams(extract_ngrams(text, 2))
        top_trigrams == TopNgrams(extract_ngrams(text, 3))
    IN  Assign(Assign(aw, prefix \o "_bigrams", top_bigrams),
               prefix \o "_trigrams", top_trigrams)

\* one iteration of the second loop (lines 129-206), given the two rankings
\* and the list rake_keywords returns; "raised" tells whether it raised
AnalyseBody(a0, ranked_raw, ranked_lem, raked_keywords) ==
    LET full_text == a0.dict["full_text"]
        lemmatized_text == a0.dict["lemmatized_text"]
        a1 == Assign(Assign(a0, "raw_keywords", TopKeywordsRaw(ranked_raw)),
                     "lem_keywords", TopKeywordsLem(ranked_lem))
        a2 == Assign(a1, "raw_lda_topics", LdaTopics(full_text))
        a3 == Assign(a2, "lem_lda_topics", LdaTopics(lemmatized_text))
        a4 == NgramFields(a3, "raw", full_text)
        a5 == NgramFields(a4, "lem", lemmatized_text)
        a6 == Assign(a5, "rake_keywords", raked_keywords)
        a7 == Assign(a6, "entities", Entities(full_text))
    IN  IF LdaRaises(full_text) THEN [raised |-> TRUE, aw |-> a1]
        ELSE IF LdaRaises(lemmatized_text) THEN [raised |-> TRUE, aw |-> a2]
        ELSE [raised |-> FALSE, aw |-> a7]

AnalyseRank ==
    /\ prog = "analyse_from_file" /\ pc = "rank"
    /\ idx <= Len(articles)
    /\ \E ranked_raw \in Rankings(vectorizer.raw.matrix[idx]),
          ranked_lem \in Rankings(vectorizer.lem.matrix[idx]),
          raked_keywords \in
              rake_keywords(articles[idx]["lemmatized_text"], stop_words) :
          LET done == AnalyseBody(
                          [dict |-> articles[idx], writes |-> writes[idx]],
                          ranked_raw, ranked_lem, raked_keywords)
          IN  /\ articles' = [articles EXCEPT ![idx] = done.aw.dict]
              /\ writes' = [writes EXCEPT ![idx] = done.aw.writes]
              /\ IF done.raised
                 THEN pc' = "raised" /\ idx' = idx
                 ELSE pc' = "rank" /\ idx' = idx + 1
    /\ UNCHANGED <<prog, width, vectorizer, fits, distances, encodes, outfile,
                   arg, ret>>

\* lines 209-210, once the second loop has ended
AnalyseWrite ==
    /\ prog = "analyse_from_file" /\ pc = "rank"
    /\ idx > Len(articles)
    /\ outfile' = Lst(articles)
    /\ pc' = "done"
    /\ UNCHANGED <<prog, articles, idx, width, vectorizer, fits, writes,
                   distances, encodes, arg, ret>>

NextAnalyse == AnalysePrepare \/ AnalyseFit \/ AnalyseRank \/ AnalyseWrite

SpecAnalyse == InitAnalyse /\ [][NextAnalyse]_vars

(***************************************************************************)
(* keyword_extraction_test (src/main.py 574-606).                          *)
(***************************************************************************)
\* the characters of a lowercased token or n-gram in code point order
CodeOrder ==
    <<" ", "0","1","2","3","4","5","6","7","8","9", "_">> \o LowerChars
CodeOf(c) == CHOOSE i \in DOMAIN CodeOrder : CodeOrder[i] = c

\* a < b for two Python strings
RECURSIVE StrLess(_, _)
StrLess(a, b) ==
    IF b = <<>> THEN FALSE
    ELSE IF a = <<>> THEN TRUE
    ELSE IF a[1] = b[1] THEN StrLess(Tail(a), Tail(b))
    ELSE CodeOf(a[1]) < CodeOf(b[1])

\* sorted(S) for a set of strings
RECURSIVE SortedStrings(_)
SortedStrings(S) ==
    IF S = {} THEN <<>>
    ELSE LET least == CHOOSE x \in S : \A y \in S \ {x} : StrLess(x, y)
         IN  <<least>> \o SortedStrings(S \ {least})

\* CountVectorizer(ngram_range=(n, n), stop_words="english").fit([doc])
\* .get_feature_names_out(): the sorted n-grams of the tokens of doc that are
\* left when the stop words are removed
Candidates(doc, n) ==
    LET tokens == SelectSeq(VectorizerTokens(doc),
                            LAMBDA t : t \notin sklearn_stop_words)
        ngrams == {Join(SubSeq(tokens, i, i + n - 1), <<" ">>) :
                      i \in 1 .. (Len(tokens) - n + 1)}
    IN  SortedStrings(ngrams)

\* fit raises ValueError("empty vocabulary ...")
CandidatesRaise(doc, n) == Candidates(doc, n) = <<>>

top_n == 10
LastWidth == 3

\* distances.argsort()[0]: the candidate indices by ascending similarity.
\* argsort's default sort is not stable, so equal similarities come in any
\* order.
Argsorts(sims) ==
    {order \in Perms(DOMAIN sims) :
        \A j \in DOMAIN order : \A k \in DOMAIN order :
            j < k => sims[order[j]] <= sims[order[k]]}

\* [candidates[index] for index in distances.argsort()[0][-top_n:]]
LastTopN(order) == SubSeq(order, Max(1, Len(order) - top_n + 1), Len(order))
Keywords(candidates, order) ==
    LET top == LastTopN(order)
    IN  [j \in DOMAIN top |-> candidates[top[j]]]

\* the key of line 600
KeywordsKey(n) == "keywords_n"

KeywordPool ==
    <<ArticleMat, ArticleCats, ArticleCat, ArticleSpecExample, ArticleNoBody>>

InitKeyword ==
    /\ prog = "keyword_extraction_test" /\ pc = "article"
    /\ articles \in ArticleLists(KeywordPool)
    /\ idx = 1 /\ width = 0
    /\ vectorizer = None /\ fits = 0
    /\ writes = [i \in DOMAIN articles |-> EmptyCounter]
    /\ distances = None /\ encodes = <<>> /\ outfile = None
    /\ arg = None /\ ret = None

\* lines 583-588: the start of one iteration of the loop over the articles
KeywordFullText ==
    /\ prog = "keyword_extraction_test" /\ pc = "article"
    /\ idx <= Len(articles)
    /\ IF FullTextRaises(articles[idx])
       THEN /\ pc' = "raised"
            /\ UNCHANGED <<articles, writes, width>>
       ELSE LET a0 == [dict |-> articles[idx], writes |-> writes[idx]]
                a1 == Assign(a0, "full_text", FullText(a0.dict))
            IN  /\ articles' = [articles EXCEPT ![idx] = a1.dict]
                /\ writes' = [writes EXCEPT ![idx] = a1.writes]
                /\ IF "url" \in DOMAIN a0.dict
                   THEN pc' = "width" /\ width' = 1
                   ELSE pc' = "raised" /\ width' = width
    /\ UNCHANGED <<prog, idx, vectorizer, fits, distances, encodes, outfile,
                   arg, ret>>

\* lines 595-596: doc_embedding = model.encode([doc]) and then
\* candidate_embeddings = model.encode(candidates), as calls of the encoder
EncodeCalls(calls, article, doc, candidates) ==
    calls \o << [article |-> article, what |-> "doc", input |-> <<doc>>],
                [article |-> article, what |-> "candidates",
                 input |-> candidates] >>

\* lines 591-601: one iteration of "for n in range(1, 4)".  The encoder is
\* external: loading it (line 594) raises when it is not available, and the
\* similarity it gives a candidate is any of the levels 0 .. MaxSim.
KeywordRank ==
    /\ prog = "keyword_extraction_test" /\ pc = "width"
    /\ LET doc == articles[idx]["full_text"]
           candidates == Candidates(doc, width)
       IN  IF CandidatesRaise(doc, width)
           THEN /\ pc' = "raised"
                /\ UNCHANGED <<articles, writes, idx, width, distances,
                               encodes>>
           ELSE
             \/ /\ pc' = "raised"
                /\ UNCHANGED <<articles, writes, idx, width, distances,
                               encodes>>
             \/ \E sims \in [DOMAIN candidates -> 0 .. MaxSim] :
                \E order \in Argsorts(sims) :
                  LET keywords == Keywords(candidates, order)
                      a1 == Assign([dict |-> articles[idx],
                                    writes |-> writes[idx]],
                                   KeywordsKey(width), keywords)
                  IN  /\ articles' = [articles EXCEPT ![idx] = a1.dict]
                      /\ writes' = [writes EXCEPT ![idx] = a1.writes]
                      /\ encodes' = EncodeCalls(encodes, idx, doc, candidates)
                      /\ distances' = [doc |-> idx, n |-> width,
                                       candidates |-> candidates,
                                       sims |-> sims]
                      /\ IF width < LastWidth
                         THEN width' = width + 1 /\ pc' = "width"
                                /\ idx' = idx
                         ELSE width' = 0 /\ pc' = "article"
                                /\ idx' = idx + 1
    /\ UNCHANGED <<prog, vectorizer, fits, outfile, arg, ret>>

\* the output written while articles are still to be processed
KeywordWriteEarly ==
    /\ prog = "keyword_extraction_test" /\ pc = "article"
    /\ outfile' = Lst(articles)
    /\ pc' = "done"
    /\ UNCHANGED <<prog, articles, idx, width, vectorizer, fits, writes,
                   distances, encodes, arg, ret>>

\* lines 605-606, once the loop has ended
KeywordWrite ==
    /\ prog = "keyword_extraction_test" /\ pc = "article"
    /\ idx > Len(articles)
    /\ outfile' = Lst(articles)
    /\ pc' = "done"
    /\ UNCHANGED <<prog, articles, idx, width, vectorizer, fits, writes,
                   distances, encodes, arg, ret>>

NextKeyword == KeywordFullText \/ KeywordRank \/ KeywordWrite

SpecKeyword == InitKeyword /\ [][NextKeyword]_vars

(***************************************************************************)
(* A run of either program of the pipeline.                                *)
(***************************************************************************)
SpecPipeline ==
    (InitAnalyse \/ InitKeyword) /\ [][NextAnalyse \/ NextKeyword]_vars

(***************************************************************************)
(* Calls of the two pure functions on bounded inputs.                      *)
(***************************************************************************)
\* the variables of the pipeline, while a pure function is under call
NoPipeline ==
    /\ articles = <<>> /\ idx = 0 /\ width = 0
    /\ vectorizer = None /\ fits = 0 /\ writes = <<>>
    /\ distances = None /\ encodes = <<>> /\ outfile = None

PipelineUnchanged ==
    UNCHANGED <<articles, idx, width, vectorizer, fits, writes, distances,
                encodes, outfile>>

MaxWidth == 3

NgramAlphabet == {"a", "b", " ", "."}
NgramInputs ==
    {[text |-> t, n |-> n] :
        t \in Strings(NgramAlphabet, MaxNgramText), n \in 1 .. MaxWidth}

InitNgram ==
    /\ prog = "extract_ngrams" /\ pc = "call"
    /\ arg \in NgramInputs /\ ret = None
    /\ NoPipeline

CallExtractNgrams ==
    /\ prog = "extract_ngrams" /\ pc = "call"
    /\ ret' = extract_ngrams(arg.text, arg.n)
    /\ pc' = "return"
    /\ UNCHANGED <<prog, arg>>
    /\ PipelineUnchanged

NextNgram == CallExtractNgrams

SpecNgram == InitNgram /\ [][NextNgram]_vars

\* texts of the end-to-end scenario of the specification and of its RAKE
\* properties
CatText ==
    <<"T","h","e"," ","c","a","t"," ","s","a","t"," ",
      "o","n"," ","t","h","e"," ","m","a","t",".">>
CatStopwords == {W_the, W_on}

RakeAlphabet == {"a", "b", "A", ",", ".", " "}
RakeStopwords == { <<"b">> }
RakeInputs ==
    {[text |-> t, stopwords |-> RakeStopwords] :
        t \in Strings(RakeAlphabet, MaxRakeText)}
    \cup {[text |-> CatText, stopwords |-> CatStopwords],
          [text |-> <<"a",",","a",",","b",",","a">>,
           stopwords |-> RakeStopwords],
          [text |-> <<"a",",","a",","," ","a",".","a",".","a"," ","a">>,
           stopwords |-> RakeStopwords]}

InitRake ==
    /\ prog = "rake_keywords" /\ pc = "call"
    /\ arg \in RakeInputs /\ ret = None
    /\ NoPipeline

CallRakeKeywords ==
    /\ prog = "rake_keywords" /\ pc = "call"
    /\ ret' \in rake_keywords(arg.text, arg.stopwords)
    /\ pc' = "return"
    /\ UNCHANGED <<prog, arg>>
    /\ PipelineUnchanged

NextRake == CallRakeKeywords

SpecRake == InitRake /\ [][NextRake]_vars


(***************************************************************************)
(* fetch_articles_from_rss (src/main.py 27-48).                            *)
(***************************************************************************)
MaxItems == 3

\* RSS_ELEMENTS.items(): the keys of an article and the RSS tags they are
\* read from
RSS_ELEMENTS ==
    << <<"linked_title", "title">>, <<"linked_desc", "description">>,
       <<"url", "link">>, <<"publication_date", "pubDate">> >>

\* addresses of articles
UrlBbc == <<"h", "t", "t", "p", "s", ":", "/", "/", "w", "w", "w", ".", "b", "b", "c", ".", "c", "o", ".", "u", "k", "/", "n">>
UrlBbcNoWww == <<"h", "t", "t", "p", "s", ":", "/", "/", "b", "b", "c", ".", "c", "o", ".", "u", "k", "/", "n">>
UrlBbcPort == <<"h", "t", "t", "p", "s", ":", "/", "/", "w", "w", "w", ".", "b", "b", "c", ".", "c", "o", ".", "u", "k", ":", "4", "4", "3", "/", "n">>
UrlExample == <<"h", "t", "t", "p", "s", ":", "/", "/", "w", "w", "w", ".", "e", "x", "a", "m", "p", "l", "e", ".", "c", "o", "m", "/", "n">>

\* the items of a feed: the text of each tag the item has
ItemFull ==
    Dict(<< <<"title", <<"o", "n", "e">>>>, <<"description", <<"d", "e", "s", "c">>>>,
            <<"link", UrlBbc>>, <<"pubDate", <<"M", "o", "n">>>> >>)
ItemEmptyDesc ==
    Dict(<< <<"title", <<"t", "w", "o">>>>, <<"description", <<>> >>,
            <<"link", UrlExample>> >>)
ItemNoLink == Dict(<< <<"title", <<"t", "h", "r", "e", "e">>>> >>)
ItemPool == {ItemFull, ItemEmptyDesc, ItemNoLink}

\* the parsed feeds: the channel's title, if it has one, and its items
Soups ==
    {[title |-> t, items |-> items] :
        t \in {Str(<<"n", "e", "w", "s">>), None},
        items \in UNION {[1 .. len -> ItemPool] : len \in 0 .. MaxItems}}

FetchInputs ==
    {[soup |-> soup, max_articles |-> m] :
        soup \in Soups, m \in -1 .. MaxItems}

\* soup.find('title'): the first title element of the document, the
\* channel's or else an item's, or None
RECURSIVE FirstItemTitle(_)
FirstItemTitle(items) ==
    IF items = <<>> THEN None
    ELSE IF "title" \in DOMAIN items[1] THEN Str(items[1]["title"])
    ELSE FirstItemTitle(Tail(items))

FindTitle(soup) ==
    IF soup.title # None THEN soup.title ELSE FirstItemTitle(soup.items)

\* lines 42-46: the article of an item
RECURSIVE ItemArticleFrom(_, _, _)
ItemArticleFrom(article, item, elements) ==
    IF elements = <<>> THEN article
    ELSE LET element == elements[1][1]
             rss_tag == elements[1][2]
             article2 == IF rss_tag \in DOMAIN item
                         THEN Put(article, element, Str(item[rss_tag]))
                         ELSE article
         IN  ItemArticleFrom(article2, item, Tail(elements))

ItemArticle(source_title, item) ==
    ItemArticleFrom(Dict(<< <<"source_title", source_title>> >>), item,
                    RSS_ELEMENTS)

\* line 40: if 0 < max_articles < i: break
FetchBreaks(max_articles, i) == 0 < max_articles /\ max_articles < i

InitFetch ==
    /\ prog = "fetch_articles_from_rss" /\ pc = "open"
    /\ arg \in FetchInputs /\ ret = None
    /\ NoPipeline

\* lines 34-37; soup.find('title').text raises AttributeError on None
FetchOpen ==
    /\ prog = "fetch_articles_from_rss" /\ pc = "open"
    /\ articles' = <<>> /\ idx' = 0
    /\ pc' = IF FindTitle(arg.soup) = None THEN "raised" ELSE "item"
    /\ UNCHANGED <<prog, arg, ret>>
    /\ UNCHANGED <<width, vectorizer, fits, writes, distances, encodes,
                   outfile>>

\* lines 39-47: one iteration of the loop; idx is i, the items counted from 0
FetchItem ==
    /\ prog = "fetch_articles_from_rss" /\ pc = "item"
    /\ idx < Len(arg.soup.items)
    /\ ~FetchBreaks(arg.max_articles, idx)
    /\ articles' = Append(articles,
                          ItemArticle(FindTitle(arg.soup),
                                      arg.soup.items[idx + 1]))
    /\ idx' = idx + 1
    /\ UNCHANGED <<prog, pc, arg, ret>>
    /\ UNCHANGED <<width, vectorizer, fits, writes, distances, encodes,
                   outfile>>

\* line 48, after the break of line 41 or the end of the items
FetchReturn ==
    /\ prog = "fetch_articles_from_rss" /\ pc = "item"
    /\ \/ idx >= Len(arg.soup.items)
       \/ FetchBreaks(arg.max_articles, idx)
    /\ ret' = articles
    /\ pc' = "return"
    /\ UNCHANGED <<prog, articles, idx, arg>>
    /\ UNCHANGED <<width, vectorizer, fits, writes, distances, encodes,
                   outfile>>

NextFetch == FetchOpen \/ FetchItem \/ FetchReturn

SpecFetch == InitFetch /\ [][NextFetch]_vars

(***************************************************************************)
(* scrape_article_content (src/main.py 51-72) and ARTICLE_FUNCTIONS        *)
(* (src/main.py 541-554).                                                  *)
(***************************************************************************)
UrlTelegraph == <<"h", "t", "t", "p", "s", ":", "/", "/", "w", "w", "w", ".", "t", "e", "l", "e", "g", "r", "a", "p", "h", ".", "c", "o", ".", "u", "k", "/", "n">>

\* the scraping function of a domain
ARTICLE_FUNCTIONS ==
    Dict(<<
            << <<"b", "b", "c", ".", "c", "o", ".", "u", "k">>,
               "scrape_article_content_bbc" >>,
            << <<"t", "e", "l", "e", "g", "r", "a", "p", "h", ".", "c", "o", ".", "u", "k">>,
               "scrape_article_content_telegraph" >>,
            << <<"d", "a", "i", "l", "y", "m", "a", "i", "l", ".", "c", "o", ".", "u", "k">>,
               "scrape_article_content_daily_mail" >>,
            << <<"i", "n", "d", "e", "p", "e", "n", "d", "e", "n", "t", ".", "c", "o", ".", "u", "k">>,
               "scrape_article_content_independent" >>,
            << <<"m", "i", "r", "r", "o", "r", ".", "c", "o", ".", "u", "k">>,
               "scrape_article_content_mirror" >>,
            << <<"t", "h", "e", "s", "u", "n", ".", "c", "o", ".", "u", "k">>,
               "scrape_article_content_sun" >>,
            << <<"e", "x", "p", "r", "e", "s", "s", ".", "c", "o", ".", "u", "k">>,
               "scrape_article_content_daily_express" >>,
            << <<"m", "e", "t", "r", "o", ".", "c", "o", ".", "u", "k">>,
               "scrape_article_content_metro" >>,
            << <<"h", "u", "f", "f", "i", "n", "g", "t", "o", "n", "p", "o", "s", "t", ".", "c", "o", ".", "u", "k">>,
               "scrape_article_content_huffpost" >>,
            << <<"s", "t", "a", "n", "d", "a", "r", "d", ".", "c", "o", ".", "u", "k">>,
               "scrape_article_content_standard" >>,
            << <<"m", "a", "n", "c", "h", "e", "s", "t", "e", "r", "e", "v", "e", "n", "i", "n", "g", "n", "e", "w", "s", ".", "c", "o", ".", "u", "k">>,
               "scrape_article_content_manchester" >>,
            << <<"b", "e", "l", "f", "a", "s", "t", "l", "i", "v", "e", ".", "c", "o", ".", "u", "k">>,
               "scrape_article_content_belfast" >> >>)

\* the least element of a non-empty set of positions
Least(P) == CHOOSE p \in P : \A r \in P : p <= r

\* urlparse(url).netloc: what stands between the "//" that follows the
\* scheme and the next "/", "?" or "#"; it includes a port
Netloc(url) ==
    LET colons == {p \in DOMAIN url : url[p] = ":"}
    IN  IF colons = {} THEN <<>>
        ELSE LET rest == SubSeq(url, Least(colons) + 1, Len(url))
             IN  IF Len(rest) >= 2 /\ rest[1] = "/" /\ rest[2] = "/"
                 THEN LET after == SubSeq(rest, 3, Len(rest))
                          stops == {p \in DOMAIN after :
                                       after[p] \in {"/", "?", "#"}}
                      IN  IF stops = {} THEN after
                          ELSE SubSeq(after, 1, Least(stops) - 1)
                 ELSE <<>>

\* str.removeprefix
RemovePrefix(str, prefix) ==
    IF Len(str) >= Len(prefix) /\ SubSeq(str, 1, Len(prefix)) = prefix
    THEN SubSeq(str, Len(prefix) + 1, Len(str))
    ELSE str

\* dict.update on a copy
Update(d, other) ==
    [k \in DOMAIN d \cup DOMAIN other |->
        IF k \in DOMAIN other THEN other[k] ELSE d[k]]

\* the dict a scraping function returns, given its seven values in the order
\* page_title, title, subtitle, author, image_captions, article_text, keywords
Scraped(values) ==
    Dict(<< <<"page_title", values[1]>>, <<"title", values[2]>>,
            <<"subtitle", values[3]>>, <<"author", values[4]>>,
            <<"image_captions", values[5]>>,
            <<"article_text", values[6]>>, <<"keywords", values[7]>> >>)

\* what scrape_article_content_default finds in a page: image_captions is
\* always [], article_text always a list
DefaultGood ==
    Scraped(<<Str(<<"P">>), Str(<<"T">>), None, Lst(<<>>), Lst(<<>>),
            Lst(<< W_cat >>), None>>)
DefaultBare ==
    Scraped(<<None, None, None, Lst(<<>>), Lst(<<>>), Lst(<<>>), None>>)

\* what scrape_article_content_bbc finds: subtitle and article_text are lists
BbcGood ==
    Scraped(<<Str(<<"P">>), Str(<<"H">>), Lst(<< W_sat >>), Lst(<< W_on >>),
            Lst(<< W_mat >>), Lst(<< W_cats >>), Lst(<< W_can >>)>>)
BbcNoText ==
    Scraped(<<Str(<<"P">>), None, Lst(<<>>), Lst(<<>>), Lst(<<>>), Lst(<<>>),
            None>>)

\* what scrape_article_content_telegraph finds: article_text is None when the
\* page has no article body
TelegraphGood ==
    Scraped(<<Str(<<"P">>), Str(<<"T">>), Str(W_sat), Lst(<<>>), Lst(<<>>),
            Lst(<< W_cans >>), None>>)
TelegraphNoText ==
    Scraped(<<Str(<<"P">>), Str(<<"T">>), None, Lst(<<>>), Lst(<<>>), None,
            None>>)

\* the parsed pages: what each scraping function returns on the page
Pages ==
    {Dict(<< <<"scrape_article_content_default", dflt>>,
             <<"scrape_article_content_bbc", bbc>>,
             <<"scrape_article_content_telegraph", telegraph>> >>) :
        dflt \in {DefaultGood, DefaultBare},
        bbc \in {BbcGood, BbcNoText},
        telegraph \in {TelegraphGood, TelegraphNoText}}

\* the articles of fetch_articles_from_rss that scrape_article_content is
\* given, and an article without url
ScrapeUrls ==
    {UrlBbc, UrlBbcNoWww, UrlBbcPort, UrlExample, UrlTelegraph}
ScrapeArticles ==
    {ItemArticle(Str(<<"n", "e", "w", "s">>),
                 Put(item, "link", url)) :
        item \in {ItemFull, ItemEmptyDesc, ItemNoLink}, url \in ScrapeUrls}
    \cup {ItemArticle(Str(<<"n", "e", "w", "s">>), ItemNoLink)}

ScrapeInputs ==
    {[article |-> article, soup |-> soup] :
        article \in ScrapeArticles, soup \in Pages}

\* line 61
DomainOf(url) == RemovePrefix(Netloc(url), <<"w", "w", "w", ".">>)

\* line 68: the scrape of a registered function has no article text
NeedsPatch(default_flag, article_dict) ==
    /\ ~default_flag
    /\ \/ article_dict["article_text"].kind = "none"
       \/ Len(article_dict["article_text"].val) = 0

\* line 71 raises KeyError: a falsy item under a key that default_dict lacks
PatchRaises(article_dict, default_dict) ==
    \E key \in DOMAIN article_dict :
        ~Truthy(article_dict[key]) /\ key \notin DOMAIN default_dict

\* line 71
Patch(article_dict, default_dict) ==
    [key \in DOMAIN article_dict |->
        IF ~Truthy(article_dict[key]) THEN default_dict[key]
        ELSE article_dict[key]]

\* the whole function; article['url'] raises KeyError when the key is missing
scrape_article_content(article, soup) ==
    IF "url" \notin DOMAIN article THEN [raised |-> TRUE]
    ELSE
      LET url == article["url"].val
          domain == DomainOf(url)
          default_flag == domain \notin DOMAIN ARTICLE_FUNCTIONS
          scraping_function ==
              IF default_flag THEN "scrape_article_content_default"
              ELSE ARTICLE_FUNCTIONS[domain]
          article_dict == Update(article, soup[scraping_function])
          default_dict == soup["scrape_article_content_default"]
      IN  IF NeedsPatch(default_flag, article_dict)
          THEN IF PatchRaises(article_dict, default_dict)
               THEN [raised |-> TRUE]
               ELSE [raised |-> FALSE,
                     value |-> Patch(article_dict, default_dict)]
          ELSE [raised |-> FALSE, value |-> article_dict]

InitScrape ==
    /\ prog = "scrape_article_content" /\ pc = "call"
    /\ arg \in ScrapeInputs /\ ret = None
    /\ NoPipeline

\* the call; the function works on article.copy(), so that the argument
\* keeps its items
CallScrape ==
    /\ prog = "scrape_article_content" /\ pc = "call"
    /\ LET result == scrape_article_content(arg.article, arg.soup)
       IN  IF result.raised
           THEN pc' = "raised" /\ ret' = ret
           ELSE pc' = "return" /\ ret' = result.value
    /\ UNCHANGED <<prog, arg>>
    /\ PipelineUnchanged

SpecScrape == InitScrape /\ [][CallScrape]_vars

(***************************************************************************)
(* Properties of extract_ngrams and rake_keywords.                         *)
(***************************************************************************)
SpacesOf(s) == {p \in DOMAIN s : s[p] = " "}

\* C5: for a token list of length L (the tokens of the text that hold a word
\* character) and a width n >= 1, extract_ngrams returns exactly
\* max(0, L-n+1) n-grams, and the i-th n-gram, split at its spaces, is the
\* tokens i..i+n-1 in their original order.
C5_NgramWindows ==
    (prog = "extract_ngrams" /\ pc = "return") =>
        LET tokens == SelectSeq(word_tokenize(arg.text), HasWordChar)
            L == Len(tokens)
        IN  /\ Len(ret) = Max(0, L - arg.n + 1)
            /\ \A i \in 1 .. Len(ret) :
                  Pieces(ret[i], SpacesOf(ret[i]), 1)
                      = SubSeq(tokens, i, i + arg.n - 1)

\* C5 witness: a text of three tokens cut into its two bigrams
C5_Witness ==
    /\ prog = "extract_ngrams" /\ pc = "return"
    /\ arg.n = 2 /\ Len(ret) = 2 /\ ret[1] # ret[2]

\* sum of f[i] over the indices i of S
RECURSIVE SumOver(_, _)
SumOver(f, S) ==
    IF S = {} THEN 0
    ELSE LET i == CHOOSE x \in S : TRUE IN f[i] + SumOver(f, S \ {i})

\* degree and frequency of a word as the specification defines them: the sum
\* of the lengths of the phrases that hold the word, and their number
DegreeOf(w, phrases) ==
    SumOver([i \in DOMAIN phrases |-> Len(phrases[i])],
            {i \in DOMAIN phrases : w \in Range(phrases[i])})
FrequencyOf(w, phrases) ==
    Cardinality({i \in DOMAIN phrases : w \in Range(phrases[i])})

\* score <= degree and score >= 1/frequency, for every scored word
RakeScoreBounds(result, phrases) ==
    \A i \in DOMAIN result :
        LET w == result[i][1]
            score == result[i][2]
        IN  /\ score.num <= DegreeOf(w, phrases) * score.den
            /\ score.num * FrequencyOf(w, phrases) >= score.den

\* C6 as stated: the score bounds hold, and in a document of a single phrase
\* with k unique words every word's score equals k, also when the phrase
\* repeats a word.
C6_SinglePhraseScoreIsUniqueCount ==
    (prog = "rake_keywords" /\ pc = "return") =>
        LET phrases == RakePhrases(arg.text, arg.stopwords)
        IN  /\ RakeScoreBounds(ret, phrases)
            /\ Len(phrases) = 1 =>
                  \A i \in DOMAIN ret :
                      ret[i][2].num
                          = Cardinality(Range(phrases[1])) * ret[i][2].den

\* C6 amended: the score bounds hold, every phrase-holding word is scored
\* once, and in a document of a single phrase of m words (repeats counted)
\* every word's score equals m, which is the number of unique words only when
\* no word repeats.
C6_SinglePhraseScoreIsLength ==
    (prog = "rake_keywords" /\ pc = "return") =>
        LET phrases == RakePhrases(arg.text, arg.stopwords)
        IN  /\ RakeScoreBounds(ret, phrases)
            /\ \A i \in DOMAIN ret : FrequencyOf(ret[i][1], phrases) >= 1
            /\ Len(phrases) = 1 =>
                  /\ Len(ret) = Cardinality(Range(phrases[1]))
                  /\ \A i \in DOMAIN ret :
                        ret[i][2].num = Len(phrases[1]) * ret[i][2].den

\* C6 witness: a single phrase of two unique words that repeats a word has
\* been scored
C6_Witness ==
    /\ prog = "rake_keywords" /\ pc = "return"
    /\ LET phrases == RakePhrases(arg.text, arg.stopwords)
       IN  /\ Len(phrases) = 1
           /\ Len(phrases[1]) > Cardinality(Range(phrases[1]))
           /\ Cardinality(Range(phrases[1])) = 2
           /\ Len(ret) = 2

\* C7: the items rake_keywords scores are the lowercased non-stop-word tokens
\* of the text (no scored item is a stop word or holds whitespace), and for
\* "The cat sat on the mat." with stop words {"the", "on"} the entries are
\* "cat", "sat" and "mat", each with score 1.0.
C7_ScoresWordTokens ==
    (prog = "rake_keywords" /\ pc = "return") =>
        LET scored == {ret[i][1] : i \in DOMAIN ret}
            tokens == {Lower(t) : t \in Range(NgramWords(arg.text))}
        IN  /\ scored = tokens \ arg.stopwords
            /\ (arg.text = CatText /\ arg.stopwords = CatStopwords) =>
                  /\ scored = {W_cat, W_sat, W_mat}
                  /\ \A i \in DOMAIN ret : ret[i][2].num = ret[i][2].den


(***************************************************************************)
(* Properties of analyse_from_file and keyword_extraction_test.            *)
(***************************************************************************)
Has(article, key) == key \in DOMAIN article

\* a segment that is empty, whitespace-only or punctuation-only
IsBlankSegment(seg) ==
    \/ seg = <<>>
    \/ \A i \in DOMAIN seg : IsSpace(seg[i])
    \/ \A i \in DOMAIN seg : ~IsWordChar(seg[i]) /\ ~IsSpace(seg[i])

\* the segments of a record in the order title, subtitle(s), body
SegmentsOf(article) ==
    (IF article["title"].kind = "str" THEN << article["title"].val >>
     ELSE <<>>)
    \o (IF article["subtitle"].kind = "list" THEN article["subtitle"].val
        ELSE IF article["subtitle"].kind = "str"
        THEN << article["subtitle"].val >>
        ELSE <<>>)
    \o article["article_text"].val

\* C1: full_text is the single-space join of the title, the subtitle
\* segment(s) and the body segments, in this order, every segment that is
\* empty, whitespace-only or punctuation-only left out.
C1_FullTextJoinsNonBlankSegments ==
    \A i \in DOMAIN articles :
        Has(articles[i], "full_text") =>
            articles[i]["full_text"]
                = Join(SelectSeq(SegmentsOf(articles[i]),
                                 LAMBDA seg : ~IsBlankSegment(seg)),
                       <<" ">>)

\* C2: each TF-IDF vectorizer is fit at most once, and exactly once when a
\* ranking has read from it or the run has ended; the fit is over the texts of
\* all articles in input order, after full_text and lemmatized_text have been
\* set on every article; no article is ranked before the fit, and the corpus
\* has the fitted documents and no other from then on.
C2_FitOnceOverWholeCorpusBeforeRanking ==
    prog = "analyse_from_file" =>
        /\ fits.raw <= 1 /\ fits.lem <= 1
        /\ (pc \in {"rank", "done"}
              \/ \E i \in DOMAIN articles : Has(articles[i], "raw_keywords"))
             => /\ vectorizer # None
                /\ fits.raw = 1 /\ fits.lem = 1
        /\ vectorizer # None =>
             /\ DOMAIN vectorizer.corpus_raw_text = DOMAIN articles
             /\ DOMAIN vectorizer.corpus_lem_text = DOMAIN articles
             /\ \A i \in DOMAIN articles :
                   /\ Has(articles[i], "full_text")
                   /\ Has(articles[i], "lemmatized_text")
                   /\ vectorizer.corpus_raw_text[i] = articles[i]["full_text"]
                   /\ vectorizer.corpus_lem_text[i]
                          = articles[i]["lemmatized_text"]
             /\ DOMAIN vectorizer.raw.matrix = DOMAIN articles
             /\ DOMAIN vectorizer.lem.matrix = DOMAIN articles

\* C2 witness: a run over two articles of different texts has ended, both
\* ranked from the one fit
C2_Witness ==
    /\ prog = "analyse_from_file" /\ pc = "done"
    /\ Len(articles) = 2
    /\ articles[1]["full_text"] # articles[2]["full_text"]
    /\ articles[1]["raw_keywords"] # <<>>
    /\ fits = [raw |-> 1, lem |-> 1]

\* C3: neither raw_keywords nor lem_keywords of any article holds a stop word.
C3_KeywordsHoldNoStopWord ==
    \A i \in DOMAIN articles :
        Has(articles[i], "lem_keywords") =>
            /\ Range(articles[i]["raw_keywords"]) \cap stop_words = {}
            /\ Range(articles[i]["lem_keywords"]) \cap stop_words = {}

\* C4: in a corpus that could be fit, an article whose text is empty after
\* preprocessing (it has no token) gets empty raw_keywords and lem_keywords.
C4_EmptyTextGetsNoKeywords ==
    \A i \in DOMAIN articles :
        (/\ prog = "analyse_from_file"
         /\ Has(articles[i], "lem_keywords")
         /\ VectorizerTokens(articles[i]["full_text"]) = <<>>)
        => /\ articles[i]["raw_keywords"] = <<>>
           /\ articles[i]["lem_keywords"] = <<>>

\* the similarity of a keyword in the last ranking
SimOf(kw) ==
    distances.sims[CHOOSE c \in DOMAIN distances.candidates :
                       distances.candidates[c] = kw]

\* C8: the ranker's result is the min(10, number of candidates) candidates of
\* highest similarity, listed most similar first (similarity never rises along
\* the list).  The order the claim asks of equal similarities is left out:
\* the statement fails without it.
C8_TopTenMostSimilarFirst ==
    (prog = "keyword_extraction_test" /\ distances # None) =>
        LET keywords == articles[distances.doc][KeywordsKey(distances.n)]
            candidates == distances.candidates
        IN  /\ Len(keywords) = Min(10, Len(candidates))
            /\ Range(keywords) \subseteq Range(candidates)
            /\ \A c \in Range(candidates) \ Range(keywords) :
                  \A kw \in Range(keywords) : SimOf(c) <= SimOf(kw)
            /\ \A j \in DOMAIN keywords : \A k \in DOMAIN keywords :
                  j < k => SimOf(keywords[j]) >= SimOf(keywords[k])

\* the keys of a record of keyword_extraction_test that hold an
\* embedding-ranked keyword list
RankedKeys(article) ==
    DOMAIN article \ {"url", "title", "subtitle", "article_text", "full_text"}

\* C9: the ranking of one width does not replace the list of another width:
\* every list the record holds before a ranking step it still holds after it,
\* and an article that has been processed holds one list per width.
C9_WidthListsKept ==
    [][(pc = "width" /\ pc' # "raised") =>
          /\ \A k \in RankedKeys(articles[idx]) :
                \E k2 \in RankedKeys(articles'[idx]) :
                    articles'[idx][k2] = articles[idx][k]
          /\ Cardinality(RankedKeys(articles'[idx])) = width]_vars

\* C10: every derived field of an article is assigned by one write and never
\* assigned again: no key has been written twice, and every key the record
\* has gained has been written once.
C10_DerivedFieldsWrittenOnce ==
    \A i \in DOMAIN articles :
        /\ \A k \in DOMAIN writes[i] : writes[i][k] <= 1
        /\ \A k \in DOMAIN articles[i] \ {"url", "title", "subtitle",
                                          "article_text"} :
              k \in DOMAIN writes[i] /\ writes[i][k] = 1

\* the calls of the encoder made for an article on an input of one kind
CallsOf(article, what) ==
    {c \in DOMAIN encodes :
        encodes[c].article = article /\ encodes[c].what = what}

\* C11: for each article the encoder is invoked on the whole document text at
\* most once, and exactly once when a width of the article has been ranked;
\* and no two invocations are on the same candidate list of the same document
\* text.
C11_DocumentEncodedOnce ==
    prog = "keyword_extraction_test" =>
        /\ \A i \in DOMAIN articles :
              /\ Cardinality(CallsOf(i, "doc")) <= 1
              /\ Has(articles[i], KeywordsKey(1))
                    => Cardinality(CallsOf(i, "doc")) = 1
        /\ \A c \in DOMAIN encodes : \A d \in DOMAIN encodes :
              (/\ c # d
               /\ encodes[c].what = "candidates"
               /\ encodes[d].what = "candidates"
               /\ articles[encodes[c].article]["full_text"]
                      = articles[encodes[d].article]["full_text"])
              => encodes[c].input # encodes[d].input

\* the fields full_text is built from
TextFields == {"title", "subtitle", "article_text"}

\* a record lacks a field: the key is missing or its value is null
LacksField(article) ==
    \E k \in TextFields : ~Has(article, k) \/ article[k].kind = "none"

\* the record with every field it lacks taken as empty
WithEmptyFields(article) ==
    [k \in DOMAIN article \cup TextFields |->
        IF Has(article, k) /\ article[k].kind # "none" THEN article[k]
        ELSE IF k = "article_text" THEN Lst(<<>>) ELSE Str(<<>>)]

\* C12: no exception leaves the step that builds full_text (a run that has
\* raised has raised at an article that has its full_text), and the full_text
\* of a record that lacks a field is built from its remaining fields.
C12_LackingFieldIsEmpty ==
    /\ (pc = "raised" /\ idx \in DOMAIN articles)
          => Has(articles[idx], "full_text")
    /\ \A i \in DOMAIN articles :
          (LacksField(articles[i]) /\ Has(articles[i], "full_text"))
          => articles[i]["full_text"] = FullText(WithEmptyFields(articles[i]))

\* the topic dictionary of a text is empty: no pseudo-sentence has a token
NoTopicToken(text) ==
    \A i \in DOMAIN LdaTexts(text) : LdaTexts(text)[i] = <<>>

\* C13: when the topic dictionary of an article's text is empty, the topic
\* step does not raise: once the ranking step has acted on the article (it
\* has its raw_keywords), the article has an empty raw topic list, and an
\* empty lemmatized topic list when the lemmatized text has no token either.
C13_EmptyDictionaryGivesNoTopics ==
    \A i \in DOMAIN articles :
        (prog = "analyse_from_file" /\ Has(articles[i], "raw_keywords"))
        => /\ NoTopicToken(articles[i]["full_text"])
                => /\ Has(articles[i], "raw_lda_topics")
                   /\ articles[i]["raw_lda_topics"] = <<>>
           /\ NoTopicToken(articles[i]["lemmatized_text"])
                => /\ Has(articles[i], "lem_lda_topics")
                   /\ articles[i]["lem_lda_topics"] = <<>>

\* C14: a failure of the encoder or of the candidate extraction for one
\* article does not end the run: a ranking step keeps the other annotations
\* of the article and leaves the run in the loop, at a further width or at
\* the next article, from where the remaining articles are processed and the
\* output file is written.
C14_RankerFailureIsSkipped ==
    [][(prog = "keyword_extraction_test" /\ pc = "width") =>
          /\ pc' \in {"width", "article"}
          /\ \A k \in DOMAIN articles[idx] \ RankedKeys(articles[idx]) :
                /\ Has(articles'[idx], k)
                /\ articles'[idx][k] = articles[idx][k]]_vars

\* C15: with max_articles = m > 0, fetch_articles_from_rss returns the
\* articles of the first min(m, number of items) items in feed order, at most
\* m of them; with max_articles <= 0 it returns one article per item.
C15_AtMostMaxArticles ==
    (prog = "fetch_articles_from_rss" /\ pc = "return") =>
        LET m == arg.max_articles
            items == arg.soup.items
            count == IF m > 0 THEN Min(m, Len(items)) ELSE Len(items)
        IN  /\ m > 0 => Len(ret) <= m
            /\ Len(ret) = count
            /\ \A i \in 1 .. Min(count, Len(ret)) :
                  ret[i] = ItemArticle(FindTitle(arg.soup), items[i])

\* the seven scraped fields
ScrapedFields ==
    {"page_title", "title", "subtitle", "author", "image_captions",
     "article_text", "keywords"}

\* the host of a URL: its network location without the port
HostOf(url) ==
    LET netloc == Netloc(url)
        colons == {p \in DOMAIN netloc : netloc[p] = ":"}
    IN  IF colons = {} THEN netloc
        ELSE SubSeq(netloc, 1, Least(colons) - 1)

\* what the scraper of a URL's domain finds in a page: the registered
\* scraper of the host without a leading "www.", else the default scraper
ScrapedFor(url, soup) ==
    LET domain == RemovePrefix(HostOf(url), <<"w", "w", "w", ".">>)
    IN  IF domain \in DOMAIN ARTICLE_FUNCTIONS
        THEN soup[ARTICLE_FUNCTIONS[domain]]
        ELSE soup["scrape_article_content_default"]

\* C16: a call of scrape_article_content on an article that has a url
\* returns; its result has every key of the input article with its value
\* unchanged and the seven scraped fields; and each scraped field is what the
\* scraper of the URL's domain found (the registered one, the default one for
\* an unregistered domain), or the default scraper's value where the
\* registered scraper found nothing.
C16_ScrapesWithDomainScraper ==
    (/\ prog = "scrape_article_content" /\ pc # "call"
     /\ Has(arg.article, "url"))
    => /\ pc = "return"
       /\ \A k \in DOMAIN arg.article :
             Has(ret, k) /\ ret[k] = arg.article[k]
       /\ \A k \in ScrapedFields :
             /\ Has(ret, k)
             /\ LET scraped == ScrapedFor(arg.article["url"].val, arg.soup)
                    default_dict ==
                        arg.soup["scrape_article_content_default"]
                IN  \/ ret[k] = scraped[k]
                    \/ ~Truthy(scraped[k]) /\ ret[k] = default_dict[k]

\* C17: when the registered scraper of the article's domain returns no or an
\* empty article_text, the call returns; the result has the keys of the
\* article updated by the scrape, every truthy item unchanged and every falsy
\* scraped field replaced by the default scraper's value for the same key.
C17_PatchCompletes ==
    (/\ prog = "scrape_article_content" /\ pc # "call"
     /\ Has(arg.article, "url")
     /\ DomainOf(arg.article["url"].val) \in DOMAIN ARTICLE_FUNCTIONS
     /\ ~Truthy(arg.soup[ARTICLE_FUNCTIONS[DomainOf(arg.article["url"].val)]]
                    ["article_text"]))
    => LET scraped ==
               arg.soup[ARTICLE_FUNCTIONS[DomainOf(arg.article["url"].val)]]
           default_dict == arg.soup["scrape_article_content_default"]
           article_dict == Update(arg.article, scraped)
       IN  /\ pc = "return"
           /\ DOMAIN ret = DOMAIN article_dict
           /\ \A k \in DOMAIN article_dict :
                 IF Truthy(article_dict[k]) THEN ret[k] = article_dict[k]
                 ELSE k \in ScrapedFields => ret[k] = default_dict[k]

\* the keys of an input record
InputKeys == {"url", "title", "subtitle", "article_text"}

\* the last derived field that a program sets on an article
LastField ==
    IF prog = "analyse_from_file" THEN "entities" ELSE KeywordsKey(LastWidth)

\* C18: the output file is written by one step, taken when the per-article
\* steps of every article have completed, and never written again; what is
\* written is the list of the records, one per input record in input order
\* (no step moves, adds or drops a record or changes an input field); a run
\* that has raised has written no output.
C18_OutputWrittenOnceAtEnd ==
    /\ [](outfile # None =>
            /\ pc = "done"
            /\ outfile = Lst(articles)
            /\ \A i \in DOMAIN articles : Has(articles[i], LastField))
    /\ [](pc = "raised" => outfile = None)
    /\ [][/\ outfile' # outfile =>
               /\ outfile = None
               /\ idx > Len(articles)
               /\ pc # "raised" /\ pc' = "done"
           /\ DOMAIN articles' = DOMAIN articles
           /\ \A i \in DOMAIN articles :
                 \A k \in InputKeys \cap DOMAIN articles[i] :
                     /\ Has(articles'[i], k)
                     /\ articles'[i][k] = articles[i][k]]_vars

\* C18 witness: keyword_extraction_test has written two records of
\* different articles, in their order
C18_Witness ==
    /\ prog = "keyword_extraction_test" /\ pc = "done"
    /\ Len(outfile.val) = 2
    /\ outfile.val[1]["url"] = Url("7")
    /\ outfile.val[2]["url"] = Url("8")

=============================================================================
